---------------------------- MODULE Spec2Model ----------------------------
(***************************************************************************)
(* TruthByte daily challenge: the daily fetch handler                      *)
(* (backend/lambda/fetch_daily_questions.py), the daily submission handler *)
(* (backend/lambda/submit_daily_answers.py) and get_or_create_user         *)
(* (backend/shared/user_utils.py), as processes that interleave at their   *)
(* DynamoDB calls.  Each storage call is one atomic step; the Python       *)
(* between two storage calls belongs to the step of the call that follows. *)
(***************************************************************************)
EXTENDS Integers, Sequences, FiniteSets, TLC

(***************************************************************************)
(* Bounds of the model.                                                    *)
(***************************************************************************)
NProcs == 2            \* handler invocations that can be in flight together
MaxRequests == 3       \* requests started in one behaviour
MaxDay == 2            \* calendar days in the window of dates
MaxTime == 1           \* days the clock can advance
MaxPool == 23          \* longest population given to the sampler alone
MaxSample == 11        \* largest sample size given to the sampler alone
MaxAnswers == 2        \* longest answer list given to the scorer alone
MaxQuestions == 11     \* ids the questions table can hold

(***************************************************************************)
(* Constants of the program.                                               *)
(***************************************************************************)
DAILY_COUNT == 10      \* questions of one daily challenge
SAFETY_LIMIT == 365    \* cap of the streak walk
MIN_DIFFICULTY == 1
MAX_DIFFICULTY == 4

Procs == 1..NProcs
Users == {"u1", "u2"}

Min(a, b) == IF a <= b THEN a ELSE b
Max(a, b) == IF a >= b THEN a ELSE b

(***************************************************************************)
(* Maps (Python dicts, DynamoDB maps) are functions with a finite domain.  *)
(***************************************************************************)
EmptyMap == [k \in {} |-> 0]
Put(m, k, v) == [x \in (DOMAIN m) \cup {k} |-> IF x = k THEN v ELSE m[x]]

(***************************************************************************)
(* Calendar.  A date string 'YYYY-MM-DD' is the triple <<y, m, d>>; a      *)
(* datetime is its proleptic Gregorian ordinal (date.toordinal()).         *)
(* strptime parses a string to a datetime, strftime formats one, and       *)
(* timedelta(days=1) is the ordinal minus one.                             *)
(***************************************************************************)
IsLeap(y) == (y % 4 = 0) /\ ((y % 100 # 0) \/ (y % 400 = 0))

DaysInMonth(y, m) ==
    IF m = 2 THEN (IF IsLeap(y) THEN 29 ELSE 28)
    ELSE IF m \in {4, 6, 9, 11} THEN 30 ELSE 31

DaysBeforeYear(y) ==
    365 * (y - 1) + ((y - 1) \div 4) - ((y - 1) \div 100) + ((y - 1) \div 400)

RECURSIVE DaysBeforeMonth(_, _)
DaysBeforeMonth(y, m) ==
    IF m = 1 THEN 0 ELSE DaysBeforeMonth(y, m - 1) + DaysInMonth(y, m - 1)

strptime(date_str) ==
    DaysBeforeYear(date_str[1]) + DaysBeforeMonth(date_str[1], date_str[2])
        + date_str[3]

\* whether strptime(date_str, '%Y-%m-%d') returns; it raises ValueError
\* for a string that names no day of the calendar
IsValidDate(date_str) ==
    /\ date_str[1] >= 1
    /\ date_str[2] \in 1..12
    /\ date_str[3] \in 1..DaysInMonth(date_str[1], date_str[2])

RECURSIVE YearOf(_, _)
YearOf(ord, y) == IF ord > DaysBeforeYear(y + 1) THEN YearOf(ord, y + 1) ELSE y

RECURSIVE MonthOf(_, _, _)
MonthOf(rest, y, m) ==
    IF rest > DaysInMonth(y, m) THEN MonthOf(rest - DaysInMonth(y, m), y, m + 1)
    ELSE <<y, m, rest>>

strftime(ord) ==
    LET y == YearOf(ord, (ord \div 366) + 1)
    IN  MonthOf(ord - DaysBeforeYear(y), y, 1)

FIRST_DATE == <<2024, 1, 30>>
Dates == {strftime(strptime(FIRST_DATE) + i) : i \in 0..(MaxDay - 1)}

(***************************************************************************)
(* calculate_daily_score.  The percentage correct_count / total * 100 is   *)
(* kept exact as the reduced fraction <<numerator, denominator>>.          *)
(***************************************************************************)
RECURSIVE Gcd(_, _)
Gcd(a, b) == IF b = 0 THEN a ELSE Gcd(b, a % b)

\* Fraction that rounds down to a whole number
FractionFloor(n, d) == <<n \div d, 1>>

Fraction(n, d) == LET g == Gcd(n, d) IN <<n \div g, d \div g>>

\* questions_data.get(question_id, {}).get('answer', False)
correct_answer_of(questions_data, question_id) ==
    IF question_id \in DOMAIN questions_data
    THEN questions_data[question_id].answer
    ELSE FALSE

RECURSIVE CountCorrect(_, _, _)
CountCorrect(answers, questions_data, i) ==
    IF i > Len(answers) THEN 0
    ELSE (IF answers[i].answer
               = correct_answer_of(questions_data, answers[i].question_id)
          THEN 1 ELSE 0)
         + CountCorrect(answers, questions_data, i + 1)

\* PctAtLeast with a strict comparison
PctAbove(correct_count, total, bound) == correct_count * 100 > bound * total

\* pct >= bound, for pct = correct_count / total * 100
PctAtLeast(correct_count, total, bound) == correct_count * 100 >= bound * total

\* calculate_daily_score with streak eligibility from rank C upwards
calculate_daily_score_from_c(answers, questions_data) ==
    LET correct_count == CountCorrect(answers, questions_data, 1)
        total_questions == Len(answers)
        zero == total_questions = 0
    IN  [correct_count |-> correct_count,
         total_questions |-> total_questions,
         score_percentage |->
             IF zero THEN <<0, 1>>
             ELSE Fraction(correct_count * 100, total_questions),
         rank |->
             IF ~zero /\ correct_count * 100 = 100 * total_questions THEN "S"
             ELSE IF ~zero /\ PctAtLeast(correct_count, total_questions, 80)
                  THEN "A"
             ELSE IF ~zero /\ PctAtLeast(correct_count, total_questions, 70)
                  THEN "B"
             ELSE IF ~zero /\ PctAtLeast(correct_count, total_questions, 60)
                  THEN "C"
             ELSE "D",
         streak_eligible |->
             ~zero /\ PctAtLeast(correct_count, total_questions, 60)]

calculate_daily_score(answers, questions_data) ==
    LET correct_count == CountCorrect(answers, questions_data, 1)
        total_questions == Len(answers)
        zero == total_questions = 0
    IN  [correct_count |-> correct_count,
         total_questions |-> total_questions,
         score_percentage |->
             IF zero THEN <<0, 1>>
             ELSE Fraction(correct_count * 100, total_questions),
         rank |->
             IF ~zero /\ correct_count * 100 = 100 * total_questions THEN "S"
             ELSE IF ~zero /\ PctAtLeast(correct_count, total_questions, 80)
                  THEN "A"
             ELSE IF ~zero /\ PctAtLeast(correct_count, total_questions, 70)
                  THEN "B"
             ELSE IF ~zero /\ PctAtLeast(correct_count, total_questions, 60)
                  THEN "C"
             ELSE "D",
         streak_eligible |->
             ~zero /\ PctAtLeast(correct_count, total_questions, 70)]

(***************************************************************************)
(* The streak walk of the submission handler: from date_str backwards one  *)
(* day at a time while the day has a completed entry.  WalkStep is one     *)
(* pass through the body of the loop, StreakWalk the loop.                 *)
(***************************************************************************)
\* WalkStep that decrements the day of the month and so ends at the first
\* day of a month
WalkStepWithinMonth(daily_progress, check_date, streak_count) ==
    LET check_str == strftime(check_date)
    IN  IF check_str \in DOMAIN daily_progress
           /\ daily_progress[check_str].completed
        THEN [streak_count |-> streak_count + 1,
              check_date |-> check_date - 1,
              break |-> streak_count + 1 > SAFETY_LIMIT \/ check_str[3] = 1]
        ELSE [streak_count |-> streak_count,
              check_date |-> check_date,
              break |-> TRUE]

\* WalkStep that walks on over a single missed day once it has counted one
WalkStepSkipsGap(daily_progress, check_date, streak_count) ==
    LET has(d) == strftime(d) \in DOMAIN daily_progress
                  /\ daily_progress[strftime(d)].completed
    IN  IF has(check_date)
        THEN [streak_count |-> streak_count + 1,
              check_date |-> check_date - 1,
              break |-> streak_count + 1 > SAFETY_LIMIT]
        ELSE IF streak_count > 0 /\ has(check_date - 1)
        THEN [streak_count |-> streak_count,
              check_date |-> check_date - 1,
              break |-> FALSE]
        ELSE [streak_count |-> streak_count,
              check_date |-> check_date,
              break |-> TRUE]

WalkStep(daily_progress, check_date, streak_count) ==
    LET check_str == strftime(check_date)
    IN  IF check_str \in DOMAIN daily_progress
           /\ daily_progress[check_str].completed
        THEN [streak_count |-> streak_count + 1,
              check_date |-> check_date - 1,
              break |-> streak_count + 1 > SAFETY_LIMIT]
        ELSE [streak_count |-> streak_count,
              check_date |-> check_date,
              break |-> TRUE]

RECURSIVE StreakWalk(_, _, _)
StreakWalk(daily_progress, check_date, streak_count) ==
    LET step == WalkStep(daily_progress, check_date, streak_count)
    IN  IF step.break THEN step.streak_count
        ELSE StreakWalk(daily_progress, step.check_date, step.streak_count)

(***************************************************************************)
(* random.Random(seed) and random.sample.  The generator is deterministic: *)
(* its stream is a function of the seed.  The Mersenne Twister is not      *)
(* reproduced; the stream is that of a full-period congruential generator  *)
(* <<multiplier, increment>> over WordBits-bit words, any member of        *)
(* Generators, so what holds for all of them does not rest on the stream's *)
(* values.  getrandbits(k) is the top k bits of the next word.             *)
(***************************************************************************)
WordBits == 8
Generators == {<<5, 3>>, <<13, 7>>, <<37, 11>>}

RECURSIVE Pow(_, _)
Pow(b, e) == IF e = 0 THEN 1 ELSE b * Pow(b, e - 1)

RECURSIVE BitLength(_)
BitLength(n) == IF n = 0 THEN 0 ELSE 1 + BitLength(n \div 2)

RngSeed(seed) == seed % Pow(2, WordBits)
RngNext(gen, state) == (gen[1] * state + gen[2]) % Pow(2, WordBits)

\* _randbelow_with_getrandbits: draw k = n.bit_length() bits until r < n;
\* the result is <<r, state after the draws>>
RECURSIVE RandBelow(_, _, _)
RandBelow(gen, state, n) ==
    LET next == RngNext(gen, state)
        r == next \div Pow(2, WordBits - BitLength(n))
    IN  IF r >= n THEN RandBelow(gen, next, n) ELSE <<r, next>>

\* 4 ** ceil(log(x, 4))
RECURSIVE CeilPow4(_, _)
CeilPow4(x, p) == IF p >= x THEN p ELSE CeilPow4(x, 4 * p)

\* setsize of random.sample: up to it the population is copied
SetSize(k) == IF k > 5 THEN 21 + CeilPow4(k * 3, 1) ELSE 21

\* SamplePool without the patch of the drawn position: a position can be
\* drawn again
RECURSIVE SamplePoolUnpatched(_, _, _, _, _, _, _)
SamplePoolUnpatched(gen, state, pool, n, k, i, result) ==
    IF i >= k THEN result
    ELSE LET d == RandBelow(gen, state, n - i)
             j == d[1] + 1
         IN  SamplePoolUnpatched(gen, d[2], pool, n, k, i + 1,
                                 Append(result, pool[j]))

\* n <= setsize: a copy of the population is drawn from and patched
RECURSIVE SamplePool(_, _, _, _, _, _, _)
SamplePool(gen, state, pool, n, k, i, result) ==
    IF i >= k THEN result
    ELSE LET d == RandBelow(gen, state, n - i)
             j == d[1] + 1
         IN  SamplePool(gen, d[2], [pool EXCEPT ![j] = pool[n - i]], n, k,
                        i + 1, Append(result, pool[j]))

\* n > setsize: positions are drawn until one not selected before comes up
RECURSIVE DrawUnselected(_, _, _, _)
DrawUnselected(gen, state, n, selected) ==
    LET d == RandBelow(gen, state, n)
    IN  IF (d[1] + 1) \in selected
        THEN DrawUnselected(gen, d[2], n, selected)
        ELSE <<d[1] + 1, d[2]>>

RECURSIVE SampleSet(_, _, _, _, _, _, _)
SampleSet(gen, state, n, k, i, selected, result) ==
    IF i >= k THEN result
    ELSE LET d == DrawUnselected(gen, state, n, selected)
         IN  SampleSet(gen, d[2], n, k, i + 1, selected \cup {d[1]},
                       Append(result, d[1]))

\* rng.sample(population, k), as the positions (from 1) of the chosen items
SamplePositions(gen, seed, n, k) ==
    IF n <= SetSize(k)
    THEN SamplePool(gen, RngSeed(seed), [p \in 1..n |-> p], n, k, 0, <<>>)
    ELSE SampleSet(gen, RngSeed(seed), n, k, 0, {}, <<>>)

deterministic_sample(gen, items, sample_size, seed) ==
    LET pos == SamplePositions(gen, seed, Len(items),
                               Min(sample_size, Len(items)))
    IN  [i \in 1..Len(pos) |-> items[pos[i]]]

(***************************************************************************)
(* get_daily_seed: the first bytes of sha256('truthbyte-daily-' + date),   *)
(* big-endian.  The model keeps the top 16 bits of the 64-bit seed (the    *)
(* first two bytes of the digest), tabulated for the dates of the window.  *)
(***************************************************************************)
SeedTable ==
    [ds \in {<<2024, 1, 30>>, <<2024, 1, 31>>, <<2024, 2, 1>>, <<2024, 2, 2>>,
             <<2024, 2, 3>>, <<2024, 2, 4>>, <<2024, 2, 5>>} |->
        CASE ds = <<2024, 1, 30>> -> 32550
          [] ds = <<2024, 1, 31>> -> 36781
          [] ds = <<2024, 2, 1>> -> 27640
          [] ds = <<2024, 2, 2>> -> 24380
          [] ds = <<2024, 2, 3>> -> 30502
          [] ds = <<2024, 2, 4>> -> 9995
          [] ds = <<2024, 2, 5>> -> 56607]

get_daily_seed(date_str) == SeedTable[date_str]

(***************************************************************************)
(* State.                                                                  *)
(***************************************************************************)
VARIABLES
    users,          \* users table: user_id -> item
    answers_table,  \* answers table: the items put
    questions,      \* questions table: id -> item
    now,            \* the UTC clock, in days since FIRST_DATE (in seconds
                    \* where question proposals are handled)
    rng,            \* the generator behind random.Random
    pc,             \* per invocation: the storage call it is about to make
    req,            \* per invocation: the event it handles
    loc,            \* per invocation: the handler's local variables
    resp,           \* per invocation: the response returned
    started,        \* requests started so far
    fn_in,          \* arguments given to a function checked alone
    fn_out,         \* its result
    rate_limits,    \* rate-limits table: id -> count
    admitted,       \* history: id of a window -> calls the limiter allowed
    submitted       \* submitted-questions table: id -> item

vars == <<users, answers_table, questions, now, rng, pc, req, loc, resp,
          started, fn_in, fn_out, rate_limits, admitted, submitted>>

Today == strftime(strptime(FIRST_DATE) + now)

QIds == 1..MaxQuestions
UnknownId == MaxQuestions + 1

Question(id, answer, difficulty) ==
    [id |-> id, answer |-> answer, difficulty |-> difficulty]

\* the table the service starts with: n questions of difficulty 1..4
SeedQuestions(n) ==
    [id \in 1..n |-> Question(id, id % 2 = 1, (id % MAX_DIFFICULTY) + 1)]

Answer(question_id, answer) ==
    [question_id |-> question_id, answer |-> answer, timestamp |-> 1]

\* the 'answers' lists of the submission bodies
SubmitBodies ==
    {<<>>,
     <<Answer(1, TRUE)>>,
     <<Answer(UnknownId, TRUE)>>}

\* the value daily_progress.get(date_str, {...}) falls back to
NoProgress ==
    [completed |-> FALSE, score |-> <<0, 1>>, rank |-> "", correct_count |-> 0,
     total_questions |-> 0, answers |-> <<>>, completed_at |-> -1,
     streak_eligible |-> FALSE]

NoScore ==
    [correct_count |-> 0, total_questions |-> 0, score_percentage |-> <<0, 1>>,
     rank |-> "", streak_eligible |-> FALSE]

NoStreak == [current_streak |-> 0, best_streak |-> 0, today_completed |-> FALSE]

\* the locals of an invocation before it has run; the last three fields
\* are history of the run, not program state
NoLocals ==
    [date_str |-> FIRST_DATE, daily_progress |-> EmptyMap, best |-> 0,
     questions_data |-> EmptyMap, score_data |-> NoScore, streak_count |-> 0,
     new_best |-> 0, progress |-> NoProgress, all_questions |-> <<>>,
     daily_questions |-> <<>>, streak_info |-> NoStreak,
     current_time |-> 0, hour_count |-> 0, day_count |-> 0,
     retry_after |-> 0, submitted_question |-> [id |-> 0],
     completed_at_start |-> {}, had_record |-> FALSE, in_flight |-> {},
     wrote |-> FALSE]

NoRequest ==
    [kind |-> "none", auth |-> "valid", user_id |-> "u1", has_date |-> FALSE,
     date |-> FIRST_DATE, answers |-> <<>>]

NoResponse == [status |-> 0, error |-> ""]

Response(status, error) == [status |-> status, error |-> error]

\* the dates of user u with a completed entry in the users table
CompletedDates(u) ==
    IF u \in DOMAIN users
    THEN {d \in DOMAIN users[u].daily_progress :
              users[u].daily_progress[d].completed}
    ELSE {}

InFlight == {p \in Procs : pc[p] \notin {"idle", "done"}}

(***************************************************************************)
(* get_or_create_user: get_item, then put_item of a fresh record when the  *)
(* get returned no Item.                                                   *)
(***************************************************************************)
NewUser ==
    [daily_progress |-> EmptyMap, current_daily_streak |-> 0,
     best_daily_streak |-> 0, total_daily_games |-> 0, last_active |-> now]

AfterUser(p) ==
    CASE req[p].kind = "submit" -> "read_user"
      [] req[p].kind = "propose" -> "rl_get_hour"
      [] req[p].kind = "review" -> "rv_get"
      [] OTHER -> "get_progress"

GocGet(p) ==
    /\ pc[p] = "goc_get"
    /\ pc' = [pc EXCEPT ![p] =
                 IF req[p].user_id \in DOMAIN users THEN AfterUser(p)
                 ELSE "goc_put"]
    /\ UNCHANGED <<users, answers_table, questions, now, rng, req, loc, resp,
                   started, fn_in, fn_out, rate_limits, admitted, submitted>>

GocPut(p) ==
    /\ pc[p] = "goc_put"
    /\ users' = Put(users, req[p].user_id, NewUser)
    /\ loc' = [loc EXCEPT ![p].wrote = TRUE]
    /\ pc' = [pc EXCEPT ![p] = AfterUser(p)]
    /\ UNCHANGED <<answers_table, questions, now, rng, req, resp, started,
                   fn_in, fn_out, rate_limits, admitted, submitted>>

(***************************************************************************)
(* An invocation starts: the Authorization header is checked before any    *)
(* storage call (both handlers, 'JWT Authentication').                     *)
(***************************************************************************)
Requests(kinds, auths, ids) ==
    [kind : kinds, auth : auths, user_id : ids,
     has_date : BOOLEAN, date : Dates, answers : SubmitBodies]

\* a fetch has no body; an absent date carries no value
WellFormed(r) ==
    /\ (r.kind = "fetch" => ~r.has_date /\ r.answers = <<>>)
    /\ (~r.has_date => r.date = FIRST_DATE)

\* BeginRequest that goes on to get_or_create_user whatever the token
BeginRequestUnchecked(p, r) ==
    /\ req' = [req EXCEPT ![p] = r]
    /\ loc' = [loc EXCEPT ![p] =
          [NoLocals EXCEPT
              !.completed_at_start = CompletedDates(r.user_id),
              !.had_record = r.user_id \in DOMAIN users,
              !.in_flight = InFlight \ {p}]]
    /\ pc' = [pc EXCEPT ![p] = "goc_get"]
    /\ resp' = [resp EXCEPT ![p] = NoResponse]

\* the handler is entered with event r: its locals are fresh, and without
\* a valid token it answers 401
BeginRequest(p, r) ==
    /\ req' = [req EXCEPT ![p] = r]
    /\ loc' = [loc EXCEPT ![p] =
          [NoLocals EXCEPT
              !.completed_at_start = CompletedDates(r.user_id),
              !.had_record = r.user_id \in DOMAIN users,
              !.in_flight = InFlight \ {p}]]
    /\ IF r.auth = "valid"
       THEN /\ pc' = [pc EXCEPT ![p] = "goc_get"]
            /\ resp' = [resp EXCEPT ![p] = NoResponse]
       ELSE /\ pc' = [pc EXCEPT ![p] = "done"]
            /\ resp' = [resp EXCEPT ![p] =
                  Response(401, IF r.auth = "missing"
                                THEN "Missing or invalid token"
                                ELSE "Invalid token")]

\* the invocation takes the first free slot
StartRequest(p, kinds, auths, ids) ==
    /\ pc[p] \in {"idle", "done"}
    /\ \A q \in Procs : q < p => pc[q] \notin {"idle", "done"}
    /\ started < MaxRequests
    /\ \E r \in Requests(kinds, auths, ids) :
          /\ WellFormed(r)
          /\ BeginRequest(p, r)
    /\ started' = started + 1
    /\ UNCHANGED <<users, answers_table, questions, now, rng, fn_in, fn_out,
                   rate_limits, admitted, submitted>>

(***************************************************************************)
(* submit_daily_answers.lambda_handler after authentication.               *)
(***************************************************************************)
\* what is left of the locals once the handler has returned: the fields of
\* the response body and the history of the run
Returned(l) ==
    [l EXCEPT !.daily_progress = EmptyMap, !.best = 0,
              !.questions_data = EmptyMap]

Finish(p, status, error) ==
    /\ pc' = [pc EXCEPT ![p] = "done"]
    /\ resp' = [resp EXCEPT ![p] = Response(status, error)]

\* body parsing, the 'No answers provided' check and the get_item that
\* looks for a completed entry of the date
ReadUser(p) ==
    /\ pc[p] = "read_user"
    /\ LET u == req[p].user_id
           date_str == IF req[p].has_date THEN req[p].date ELSE Today
           found == u \in DOMAIN users
           daily_progress ==
               IF found THEN users[u].daily_progress ELSE EmptyMap
           best == IF found THEN users[u].best_daily_streak ELSE 0
       IN  IF req[p].answers = <<>>
           THEN /\ Finish(p, 400, "No answers provided")
                /\ loc' = loc
           ELSE IF date_str \in DOMAIN daily_progress
                   /\ daily_progress[date_str].completed
                THEN /\ Finish(p, 400,
                            "Daily challenge already completed for today")
                     /\ loc' = [loc EXCEPT ![p].date_str = date_str]
                ELSE /\ pc' = [pc EXCEPT ![p] = "batch_get"]
                     /\ resp' = resp
                     /\ loc' = [loc EXCEPT
                            ![p].date_str = date_str,
                            ![p].daily_progress = daily_progress,
                            ![p].best = best]
    /\ UNCHANGED <<users, answers_table, questions, now, rng, req, started,
                   fn_in, fn_out, rate_limits, admitted, submitted>>

\* an exception reaches the handler's outer except clause: 500
Raise(p) ==
    /\ loc' = [loc EXCEPT ![p] = Returned(loc[p])]
    /\ Finish(p, 500, "Internal server error")

\* whether every answer of the list has the keys (answer[key] raises
\* KeyError otherwise)
AllHave(answers, keys) ==
    \A i \in 1..Len(answers) : keys \subseteq DOMAIN answers[i]

question_ids(answers) == {answers[i].question_id : i \in 1..Len(answers)}

\* the list of question ids, then batch_get_item of the answered questions
BatchGet(p) ==
    /\ pc[p] = "batch_get"
    /\ IF AllHave(req[p].answers, {"question_id"})
       THEN /\ loc' = [loc EXCEPT ![p].questions_data =
                   [id \in question_ids(req[p].answers) \cap DOMAIN questions
                       |-> questions[id]]]
            /\ pc' = [pc EXCEPT ![p] = "batch_write"]
            /\ resp' = resp
       ELSE Raise(p)
    /\ UNCHANGED <<users, answers_table, questions, now, rng, req, started,
                   fn_in, fn_out, rate_limits, admitted, submitted>>

AnswerItem(user_id, date_str, answer, questions_data) ==
    [user_id |-> user_id, question_id |-> answer.question_id,
     answer |-> answer.answer, timestamp |-> answer.timestamp,
     mode |-> "daily", date |-> date_str,
     correct_answer |-> correct_answer_of(questions_data, answer.question_id),
     is_correct |->
         answer.answer = correct_answer_of(questions_data, answer.question_id)]

\* the PutRequests of the batch
BatchItems(p) ==
    {AnswerItem(req[p].user_id, loc[p].date_str, req[p].answers[i],
                loc[p].questions_data) : i \in 1..Len(req[p].answers)}

\* scoring and the list of PutRequests, then batch_write_item of the
\* answers; the call returns the items it did not write as
\* UnprocessedItems, and the handler does not look at what the call returns
BatchWriteLeaving(p, unprocessed) ==
    /\ pc[p] = "batch_write"
    /\ IF AllHave(req[p].answers, {"answer", "timestamp"})
       THEN /\ answers_table' =
                   answers_table \cup (BatchItems(p) \ unprocessed)
            /\ loc' = [loc EXCEPT
                   ![p].score_data =
                       calculate_daily_score(req[p].answers,
                                             loc[p].questions_data),
                   ![p].wrote = TRUE]
            /\ pc' = [pc EXCEPT ![p] = "update_user"]
            /\ resp' = resp
       ELSE /\ Raise(p)
            /\ answers_table' = answers_table
    /\ UNCHANGED <<users, questions, now, rng, req, started, fn_in, fn_out,
                   rate_limits, admitted, submitted>>

\* batch_write_item that writes every item
BatchWrite(p) == BatchWriteLeaving(p, {})

\* batch_write_item that leaves some of the items unprocessed
BatchWriteUnprocessed(p) ==
    /\ pc[p] = "batch_write"
    /\ AllHave(req[p].answers, {"answer", "timestamp"})
    /\ \E unprocessed \in (SUBSET BatchItems(p)) \ {{}} :
          BatchWriteLeaving(p, unprocessed)

\* a storage call raises: the handler's except clause answers 500
StorageError(p, at) ==
    /\ pc[p] = at
    /\ Raise(p)
    /\ UNCHANGED <<users, answers_table, questions, now, rng, req, started,
                   fn_in, fn_out, rate_limits, admitted, submitted>>

BatchWriteRaises(p) == StorageError(p, "batch_write")

\* update_item that stores the record and then raises
UpdateUserStoresAndRaises(p) ==
    /\ pc[p] = "update_user"
    /\ users' = Put(users, req[p].user_id,
           [daily_progress |-> Put(loc[p].daily_progress, loc[p].date_str,
                                   [NoProgress EXCEPT !.completed = TRUE]),
            current_daily_streak |-> 1, best_daily_streak |-> 1,
            total_daily_games |-> 1, last_active |-> now])
    /\ Raise(p)
    /\ UNCHANGED <<answers_table, questions, now, rng, req, started, fn_in,
                   fn_out, rate_limits, admitted, submitted>>

UpdateUserRaises(p) == StorageError(p, "update_user")

\* get_item or put_item of get_or_create_user, the get_item of the
\* completed check, batch_get_item or the scan raises
ReadRaises(p) ==
    \E at \in {"goc_get", "goc_put", "read_user", "batch_get", "scan"} :
        StorageError(p, at)

ProgressEntry(score_data, answers, current_time) ==
    [completed |-> TRUE, score |-> score_data.score_percentage,
     rank |-> score_data.rank, correct_count |-> score_data.correct_count,
     total_questions |-> score_data.total_questions, answers |-> answers,
     completed_at |-> current_time,
     streak_eligible |-> score_data.streak_eligible]

\* the entry of the date, the streak walk and the update_item that stores
\* the map read by ReadUser with the new entry in it; strptime raises
\* before the update_item when date_str is no date
UpdateUser(p) ==
    /\ pc[p] = "update_user"
    /\ IF IsValidDate(loc[p].date_str)
       THEN LET u == req[p].user_id
                date_str == loc[p].date_str
                current_time == now
                daily_progress ==
                    Put(loc[p].daily_progress, date_str,
                        ProgressEntry(loc[p].score_data, req[p].answers,
                                      current_time))
                streak_count ==
                    StreakWalk(daily_progress, strptime(date_str), 0)
                new_best == Max(loc[p].best, streak_count)
                games == IF u \in DOMAIN users
                         THEN users[u].total_daily_games ELSE 0
            IN  /\ users' = Put(users, u,
                       [daily_progress |-> daily_progress,
                        current_daily_streak |-> streak_count,
                        best_daily_streak |-> new_best,
                        total_daily_games |-> games + 1,
                        last_active |-> current_time])
                /\ loc' = [loc EXCEPT ![p] =
                       Returned([loc[p] EXCEPT !.streak_count = streak_count,
                                               !.new_best = new_best,
                                               !.wrote = TRUE])]
                /\ Finish(p, 200, "")
       ELSE /\ Raise(p)
            /\ users' = users
    /\ UNCHANGED <<answers_table, questions, now, rng, req, started, fn_in,
                   fn_out, rate_limits, admitted, submitted>>

(***************************************************************************)
(* fetch_daily_questions.lambda_handler after authentication.              *)
(***************************************************************************)
\* today's date and get_user_daily_progress
GetProgress(p) ==
    /\ pc[p] = "get_progress"
    /\ LET u == req[p].user_id
           date_str == Today
           daily_progress ==
               IF u \in DOMAIN users THEN users[u].daily_progress ELSE EmptyMap
       IN  loc' = [loc EXCEPT
               ![p].date_str = date_str,
               ![p].progress =
                   IF date_str \in DOMAIN daily_progress
                   THEN daily_progress[date_str] ELSE NoProgress]
    /\ pc' = [pc EXCEPT ![p] = "scan"]
    /\ UNCHANGED <<users, answers_table, questions, now, rng, req, resp,
                   started, fn_in, fn_out, rate_limits, admitted, submitted>>

\* get_user_daily_progress whose get_item raises: the except clause
\* returns the 'not completed' dictionary and the handler goes on
GetProgressRaises(p) ==
    /\ pc[p] = "get_progress"
    /\ loc' = [loc EXCEPT ![p].date_str = Today, ![p].progress = NoProgress]
    /\ pc' = [pc EXCEPT ![p] = "scan"]
    /\ UNCHANGED <<users, answers_table, questions, now, rng, req, resp,
                   started, fn_in, fn_out, rate_limits, admitted, submitted>>

RECURSIVE InIdOrder(_)
InIdOrder(ids) ==
    IF ids = {} THEN <<>>
    ELSE LET least == CHOOSE i \in ids : \A j \in ids : i <= j
         IN  <<least>> \o InIdOrder(ids \ {least})

\* ScanEligible without the filter on difficulty
ScanUnfiltered(table) ==
    LET ids == InIdOrder(DOMAIN table)
    IN  [i \in 1..Len(ids) |-> table[ids[i]]]

\* questions_table.scan with difficulty between 1 and 4: the items in the
\* table's order (one page: the table holds fewer items than the Limit)
ScanEligible(table) ==
    LET ids == InIdOrder({id \in DOMAIN table :
                   /\ table[id].difficulty >= MIN_DIFFICULTY
                   /\ table[id].difficulty <= MAX_DIFFICULTY})
    IN  [i \in 1..Len(ids) |-> table[ids[i]]]

\* ScanQuestions with the generator seeded per user instead of per date
ScanQuestionsPerUser(p) ==
    /\ pc[p] = "scan"
    /\ LET all_questions == ScanEligible(questions)
           user_seed == get_daily_seed(loc[p].date_str)
                            + (IF req[p].user_id = "u1" THEN 1 ELSE 2)
       IN  IF Len(all_questions) < DAILY_COUNT
           THEN /\ Finish(p, 404,
                     "Not enough questions available for daily challenge")
                /\ loc' = [loc EXCEPT ![p].all_questions = all_questions]
           ELSE /\ loc' = [loc EXCEPT
                       ![p].all_questions = all_questions,
                       ![p].daily_questions =
                           deterministic_sample(rng, all_questions, DAILY_COUNT,
                                                user_seed)]
                /\ pc' = [pc EXCEPT ![p] = "calc_streak"]
                /\ resp' = resp
    /\ UNCHANGED <<users, answers_table, questions, now, rng, req, started,
                   fn_in, fn_out, rate_limits, admitted, submitted>>

\* the scan, the size check and the seeded sample
ScanQuestions(p) ==
    /\ pc[p] = "scan"
    /\ LET all_questions == ScanEligible(questions)
       IN  IF Len(all_questions) < DAILY_COUNT
           THEN /\ Finish(p, 404,
                     "Not enough questions available for daily challenge")
                /\ loc' = [loc EXCEPT ![p].all_questions = all_questions]
           ELSE /\ loc' = [loc EXCEPT
                       ![p].all_questions = all_questions,
                       ![p].daily_questions =
                           deterministic_sample(rng, all_questions, DAILY_COUNT,
                               get_daily_seed(loc[p].date_str))]
                /\ pc' = [pc EXCEPT ![p] = "calc_streak"]
                /\ resp' = resp
    /\ UNCHANGED <<users, answers_table, questions, now, rng, req, started,
                   fn_in, fn_out, rate_limits, admitted, submitted>>

\* UserWalkStep that starts counting at the latest completed day before
\* today when today is not completed
UserWalkStepFromLatest(daily_progress, check_date, current_streak) ==
    LET date_str == strftime(check_date)
        day_progress == IF date_str \in DOMAIN daily_progress
                        THEN daily_progress[date_str] ELSE NoProgress
        earlier == \E ds \in DOMAIN daily_progress :
                       strptime(ds) < check_date
    IN  IF day_progress.completed
        THEN [current_streak |-> current_streak + 1,
              check_date |-> check_date - 1,
              break |-> current_streak + 1 > SAFETY_LIMIT]
        ELSE [current_streak |-> current_streak,
              check_date |-> IF current_streak = 0 /\ earlier
                             THEN check_date - 1 ELSE check_date,
              break |-> ~(current_streak = 0 /\ earlier)]

\* UserWalkStep without the safety limit
UserWalkStepNoLimit(daily_progress, check_date, current_streak) ==
    LET date_str == strftime(check_date)
        day_progress == IF date_str \in DOMAIN daily_progress
                        THEN daily_progress[date_str] ELSE NoProgress
    IN  IF day_progress.completed
        THEN [current_streak |-> current_streak + 1,
              check_date |-> check_date - 1,
              break |-> FALSE]
        ELSE [current_streak |-> current_streak,
              check_date |-> check_date,
              break |-> TRUE]

\* one pass through the loop of calculate_user_streak
UserWalkStep(daily_progress, check_date, current_streak) ==
    LET date_str == strftime(check_date)
        day_progress == IF date_str \in DOMAIN daily_progress
                        THEN daily_progress[date_str] ELSE NoProgress
    IN  IF day_progress.completed
        THEN [current_streak |-> current_streak + 1,
              check_date |-> check_date - 1,
              break |-> current_streak + 1 > SAFETY_LIMIT]
        ELSE [current_streak |-> current_streak,
              check_date |-> check_date,
              break |-> TRUE]

\* the walk of calculate_user_streak, from today backwards
RECURSIVE UserStreakWalk(_, _, _)
UserStreakWalk(daily_progress, check_date, current_streak) ==
    LET step == UserWalkStep(daily_progress, check_date, current_streak)
    IN  IF step.break THEN step.current_streak
        ELSE UserStreakWalk(daily_progress, step.check_date,
                            step.current_streak)

\* StreakInfo that reports the current streak as the best
StreakInfoCurrentOnly(daily_progress, best_streak, current_streak) ==
    [current_streak |-> current_streak,
     best_streak |-> current_streak,
     today_completed |->
         Today \in DOMAIN daily_progress /\ daily_progress[Today].completed]

\* the dictionary calculate_user_streak returns
StreakInfo(daily_progress, best_streak, current_streak) ==
    [current_streak |-> current_streak,
     best_streak |-> Max(best_streak, current_streak),
     today_completed |->
         Today \in DOMAIN daily_progress /\ daily_progress[Today].completed]

calculate_user_streak(user_id) ==
    LET found == user_id \in DOMAIN users
        daily_progress ==
            IF found THEN users[user_id].daily_progress ELSE EmptyMap
        best_streak == IF found THEN users[user_id].best_daily_streak ELSE 0
    IN  StreakInfo(daily_progress, best_streak,
                   UserStreakWalk(daily_progress, strptime(Today), 0))

\* CalcStreak that stores the streak it computed in the user's record
CalcStreakStored(p) ==
    /\ pc[p] = "calc_streak"
    /\ LET streak_info == calculate_user_streak(req[p].user_id)
           u == req[p].user_id
       IN  /\ loc' = [loc EXCEPT ![p].streak_info = streak_info]
           /\ users' = IF u \in DOMAIN users
                       THEN [users EXCEPT ![u].current_daily_streak =
                                streak_info.current_streak]
                       ELSE users
    /\ Finish(p, 200, "")
    /\ UNCHANGED <<answers_table, questions, now, rng, req, started, fn_in,
                   fn_out, rate_limits, admitted, submitted>>

\* calculate_user_streak and the 200 response
CalcStreak(p) ==
    /\ pc[p] = "calc_streak"
    /\ loc' = [loc EXCEPT ![p].streak_info =
                  calculate_user_streak(req[p].user_id)]
    /\ Finish(p, 200, "")
    /\ UNCHANGED <<users, answers_table, questions, now, rng, req, started,
                   fn_in, fn_out, rate_limits, admitted, submitted>>

\* calculate_user_streak whose get_item raises: the except clause returns
\* zeros and the handler answers 200
CalcStreakRaises(p) ==
    /\ pc[p] = "calc_streak"
    /\ loc' = [loc EXCEPT ![p].streak_info = NoStreak]
    /\ Finish(p, 200, "")
    /\ UNCHANGED <<users, answers_table, questions, now, rng, req, started,
                   fn_in, fn_out, rate_limits, admitted, submitted>>

(***************************************************************************)
(* The environment: the clock advances, questions are added to the table.  *)
(***************************************************************************)
Tick ==
    /\ now < MaxTime
    /\ now' = now + 1
    /\ UNCHANGED <<users, answers_table, questions, rng, pc, req, loc, resp,
                   started, fn_in, fn_out, rate_limits, admitted, submitted>>

AddQuestion ==
    /\ \E id \in QIds \ DOMAIN questions :
       \E difficulty \in {MAX_DIFFICULTY, MAX_DIFFICULTY + 1} :
          questions' = Put(questions, id, Question(id, TRUE, difficulty))
    /\ UNCHANGED <<users, answers_table, now, rng, pc, req, loc, resp,
                   started, fn_in, fn_out, rate_limits, admitted, submitted>>

(***************************************************************************)
(* Spec: submissions and fetches of the users, interleaved at their        *)
(* storage calls, over a fixed questions table.                            *)
(***************************************************************************)
NoArgs == [fn |-> "none"]

\* the tables of the question proposals are empty
NoProposals ==
    /\ rate_limits = EmptyMap
    /\ admitted = EmptyMap
    /\ submitted = EmptyMap

Init ==
    /\ users = EmptyMap
    /\ answers_table = {}
    /\ questions = SeedQuestions(DAILY_COUNT)
    /\ now = 0
    /\ rng = <<5, 3>>
    /\ pc = [p \in Procs |-> "idle"]
    /\ req = [p \in Procs |-> NoRequest]
    /\ loc = [p \in Procs |-> NoLocals]
    /\ resp = [p \in Procs |-> NoResponse]
    /\ started = 0
    /\ NoProposals
    /\ fn_in = NoArgs
    /\ fn_out = NoArgs

Start(p) ==
    StartRequest(p, {"submit", "fetch"}, {"valid", "missing", "invalid"},
                 {"u1"})

Next ==
    \/ \E p \in Procs : Start(p)
    \/ \E p \in Procs : GocGet(p)
    \/ \E p \in Procs : GocPut(p)
    \/ \E p \in Procs : ReadUser(p)
    \/ \E p \in Procs : BatchGet(p)
    \/ \E p \in Procs : BatchWrite(p)
    \/ \E p \in Procs : UpdateUser(p)
    \/ \E p \in Procs : GetProgress(p)
    \/ \E p \in Procs : ScanQuestions(p)
    \/ \E p \in Procs : CalcStreak(p)
    \/ Tick

Spec == Init /\ [][Next]_vars

(***************************************************************************)
(* Properties of the submission handler.                                   *)
(***************************************************************************)
\* invocation p has returned from a submission that passed authentication
\* and carried answers, so that it went through the completed check
SubmissionDone(p) ==
    /\ pc[p] = "done"
    /\ req[p].kind = "submit"
    /\ req[p].auth = "valid"
    /\ req[p].answers # <<>>

Concurrent(p, q) == (q \in loc[p].in_flight) \/ (p \in loc[q].in_flight)

AlreadyCompleted(p) ==
    resp[p] = Response(400, "Daily challenge already completed for today")

\* C1: of two submissions for the same (user, date) that run concurrently,
\* both started while the date was not completed, exactly one succeeds and
\* the other is rejected as already completed.
C1_ExactlyOneSucceeds ==
    \A p, q \in Procs :
        ( /\ p # q
          /\ SubmissionDone(p) /\ SubmissionDone(q)
          /\ req[p].user_id = req[q].user_id
          /\ loc[p].date_str = loc[q].date_str
          /\ Concurrent(p, q)
          /\ loc[p].date_str \notin loc[p].completed_at_start
          /\ loc[q].date_str \notin loc[q].completed_at_start )
        => \/ resp[p].status = 200 /\ AlreadyCompleted(q)
           \/ resp[q].status = 200 /\ AlreadyCompleted(p)

\* C2: a completed entry of daily_progress is never overwritten: while the
\* entry exists, its score, rank, correct_count, answers and completed_at
\* are the ones stored by the submission that completed it.
C2_CompletedNeverOverwritten ==
    [][\A u \in DOMAIN users : \A d \in CompletedDates(u) :
          d \in DOMAIN users'[u].daily_progress =>
              LET old == users[u].daily_progress[d]
                  new == users'[u].daily_progress[d]
              IN  /\ new.completed
                  /\ new.score = old.score
                  /\ new.rank = old.rank
                  /\ new.correct_count = old.correct_count
                  /\ new.answers = old.answers
                  /\ new.completed_at = old.completed_at]_vars

\* C3: a submission for (user, date) that starts after a completed entry of
\* (user, date) has been stored is answered 400 'already completed' and
\* writes nothing, neither to the users table nor to the answers table.
C3_DuplicateRejected ==
    \A p \in Procs :
        (SubmissionDone(p) /\ loc[p].date_str \in loc[p].completed_at_start)
        => AlreadyCompleted(p) /\ ~loc[p].wrote

\* C4: the write that ends a submission deletes no completed entry: every
\* date of the user completed before the update_item is completed after it.
C4_CompletedNeverDeleted ==
    [][(\E p \in Procs : pc[p] = "update_user" /\ pc'[p] = "done")
          => \A u \in DOMAIN users : CompletedDates(u) \subseteq CompletedDates(u)']_vars

(***************************************************************************)
(* Properties of the fetch handler.                                        *)
(***************************************************************************)
StreakState(item) ==
    <<item.daily_progress, item.current_daily_streak, item.best_daily_streak,
      item.total_daily_games>>

\* C9: a step of a fetch for a user that had a record when the fetch
\* started leaves the user's daily_progress, current_daily_streak,
\* best_daily_streak and total_daily_games as they were.
C9_FetchOnlyReads ==
    [][\A p \in Procs :
          ( /\ pc'[p] # pc[p]
            /\ req'[p].kind = "fetch"
            /\ loc'[p].had_record )
          => /\ req'[p].user_id \in DOMAIN users'
             /\ StreakState(users'[req'[p].user_id])
                    = StreakState(users[req'[p].user_id])]_vars

\* a fetch of a user with a stored streak has been answered 200
C9_Witness ==
    \E p \in Procs :
        /\ pc[p] = "done" /\ req[p].kind = "fetch" /\ resp[p].status = 200
        /\ loc[p].had_record
        /\ CompletedDates(req[p].user_id) # {}
        /\ users[req[p].user_id].current_daily_streak > 0

(***************************************************************************)
(* SpecPool: fetches of both users while questions are added to the table  *)
(* and the clock advances.  The users table starts empty or as a           *)
(* submission of u1 for the first date leaves it.                          *)
(***************************************************************************)
UserAfterSubmission(answers, date_str, current_time) ==
    LET entry == ProgressEntry(
                     calculate_daily_score(answers, SeedQuestions(DAILY_COUNT - 1)),
                     answers, current_time)
        daily_progress == Put(EmptyMap, date_str, entry)
        streak_count == StreakWalk(daily_progress, strptime(date_str), 0)
    IN  [daily_progress |-> daily_progress,
         current_daily_streak |-> streak_count,
         best_daily_streak |-> streak_count,
         total_daily_games |-> 1,
         last_active |-> current_time]

InitPool ==
    /\ users \in {EmptyMap,
                  Put(EmptyMap, "u1",
                      UserAfterSubmission(<<Answer(1, TRUE)>>, FIRST_DATE, 0))}
    /\ answers_table = {}
    /\ questions = SeedQuestions(DAILY_COUNT - 1)
    /\ now = 0
    /\ rng \in Generators
    /\ pc = [p \in Procs |-> "idle"]
    /\ req = [p \in Procs |-> NoRequest]
    /\ loc = [p \in Procs |-> NoLocals]
    /\ resp = [p \in Procs |-> NoResponse]
    /\ started = 0
    /\ NoProposals
    /\ fn_in = NoArgs
    /\ fn_out = NoArgs

StartFetch(p) == StartRequest(p, {"fetch"}, {"valid"}, Users)

NextPool ==
    \/ \E p \in Procs : StartFetch(p)
    \/ \E p \in Procs : GocGet(p)
    \/ \E p \in Procs : GocPut(p)
    \/ \E p \in Procs : GetProgress(p)
    \/ \E p \in Procs : ScanQuestions(p)
    \/ \E p \in Procs : CalcStreak(p)
    \/ AddQuestion
    \/ Tick

SpecPool == InitPool /\ [][NextPool]_vars

Range(seq) == {seq[i] : i \in 1..Len(seq)}

FetchAnswered(p) ==
    pc[p] = "done" /\ req[p].kind = "fetch" /\ resp[p].status = 200

\* C5: two fetches answered for the same date from the same pool return the
\* same questions, whoever the users are and whatever their progress.
C5_SameForEveryUser ==
    \A p, q \in Procs :
        ( /\ FetchAnswered(p) /\ FetchAnswered(q)
          /\ loc[p].date_str = loc[q].date_str
          /\ loc[p].all_questions = loc[q].all_questions )
        => loc[p].daily_questions = loc[q].daily_questions

\* two users, one with a completed day and a streak and one without, have
\* been answered for the same date from the same pool
C5_Witness ==
    \E p, q \in Procs :
        /\ FetchAnswered(p) /\ FetchAnswered(q)
        /\ req[p].user_id # req[q].user_id
        /\ loc[p].date_str = loc[q].date_str
        /\ loc[p].all_questions = loc[q].all_questions
        /\ loc[p].streak_info.current_streak > 0
        /\ loc[q].streak_info.current_streak = 0
        /\ loc[p].progress.completed /\ ~loc[q].progress.completed
        /\ Len(loc[p].daily_questions) = DAILY_COUNT

\* C6: two fetches answered for the same date return the same set of
\* questions, also when questions were added between them.
C6_StableForTheDate ==
    \A p, q \in Procs :
        ( /\ FetchAnswered(p) /\ FetchAnswered(q)
          /\ loc[p].date_str = loc[q].date_str )
        => Range(loc[p].daily_questions) = Range(loc[q].daily_questions)

EligibleCount ==
    Cardinality({id \in DOMAIN questions :
                     questions[id].difficulty \in 1..4})

\* C8: the scan step of a fetch ends the fetch with 404 and no questions
\* when fewer than 10 questions of difficulty 1..4 are stored and selects
\* exactly 10 otherwise; a fetch answered 200 carries exactly 10 questions.
C8_InsufficientPool ==
    [][\A p \in Procs :
          /\ (pc[p] = "scan" /\ pc'[p] # "scan" /\ EligibleCount < 10)
             => /\ pc'[p] = "done"
                /\ resp'[p] = Response(404,
                       "Not enough questions available for daily challenge")
                /\ loc'[p].daily_questions = <<>>
          /\ (pc[p] = "scan" /\ pc'[p] # "scan" /\ EligibleCount >= 10)
             => /\ pc'[p] = "calc_streak"
                /\ Len(loc'[p].daily_questions) = 10
          /\ (pc'[p] = "done" /\ req'[p].kind = "fetch"
                 /\ resp'[p].status = 200)
             => Len(loc'[p].daily_questions) = 10]_vars

\* one fetch was refused for want of questions although a question too
\* hard for the daily made the table 10 long, another was answered
C8_Witness ==
    \E p, q \in Procs :
        /\ pc[p] = "done" /\ req[p].kind = "fetch" /\ resp[p].status = 404
        /\ Len(loc[p].all_questions) = 9
        /\ FetchAnswered(q)
        /\ Len(loc[q].all_questions) = 10
        /\ \E id \in DOMAIN questions : questions[id].difficulty = 5

(***************************************************************************)
(* SpecSample: deterministic_sample alone, on every population length,     *)
(* sample size and seed within the bounds.                                 *)
(***************************************************************************)
Quiet ==
    /\ users = EmptyMap
    /\ answers_table = {}
    /\ questions = SeedQuestions(DAILY_COUNT)
    /\ now = 0
    /\ pc = [p \in Procs |-> "idle"]
    /\ req = [p \in Procs |-> NoRequest]
    /\ loc = [p \in Procs |-> NoLocals]
    /\ resp = [p \in Procs |-> NoResponse]
    /\ started = 0
    /\ NoProposals

InitSample ==
    /\ Quiet
    /\ rng \in Generators
    /\ \E n \in 0..MaxPool, k \in 0..MaxSample, ds \in DOMAIN SeedTable :
          fn_in = [fn |-> "deterministic_sample", items |-> [i \in 1..n |-> i],
                   sample_size |-> k, seed |-> get_daily_seed(ds)]
    /\ fn_out = NoArgs

ApplySample ==
    /\ fn_in.fn = "deterministic_sample"
    /\ fn_out.fn = "none"
    /\ fn_out' = [fn |-> "deterministic_sample",
                  result |-> deterministic_sample(rng, fn_in.items,
                                 fn_in.sample_size, fn_in.seed)]
    /\ UNCHANGED <<users, answers_table, questions, now, rng, pc, req, loc,
                   resp, started, fn_in, rate_limits, admitted, submitted>>

NextSample == ApplySample

SpecSample == InitSample /\ [][NextSample]_vars

\* C7: deterministic_sample returns min(k, len(pool)) items, each an item
\* of the pool and no two the same item; fewer than k only when the pool
\* has fewer than k items.
C7_SampleSize ==
    fn_out.fn = "deterministic_sample" =>
        LET result == fn_out.result
            n == Len(fn_in.items)
            k == fn_in.sample_size
        IN  /\ Len(result) = (IF k <= n THEN k ELSE n)
            /\ \A i \in 1..Len(result) : result[i] \in Range(fn_in.items)
            /\ \A i, j \in 1..Len(result) : i # j => result[i] # result[j]
            /\ (Len(result) < k => n < k)

\* a sample of several items was drawn from a population shorter than the
\* requested size
C7_Witness ==
    /\ fn_out.fn = "deterministic_sample"
    /\ Len(fn_in.items) < fn_in.sample_size
    /\ Len(fn_out.result) > 3

(***************************************************************************)
(* SpecScore: calculate_daily_score alone, on every answer list and        *)
(* ground-truth map within the bounds.                                     *)
(***************************************************************************)
ScoreIds == {1, 2}

InitScore ==
    /\ Quiet
    /\ rng = <<5, 3>>
    /\ \E n \in 0..MaxAnswers :
       \E ids \in [1..n -> ScoreIds], given \in [1..n -> BOOLEAN] :
       \E known \in SUBSET ScoreIds :
       \E truth \in [known -> BOOLEAN] :
          fn_in = [fn |-> "calculate_daily_score",
                   answers |-> [i \in 1..n |-> Answer(ids[i], given[i])],
                   questions_data |->
                       [id \in known |-> Question(id, truth[id], MIN_DIFFICULTY)]]
    /\ fn_out = NoArgs

ApplyScore ==
    /\ fn_in.fn = "calculate_daily_score"
    /\ fn_out.fn = "none"
    /\ fn_out' = [fn |-> "calculate_daily_score",
                  result |-> calculate_daily_score(fn_in.answers,
                                                   fn_in.questions_data)]
    /\ UNCHANGED <<users, answers_table, questions, now, rng, pc, req, loc,
                   resp, started, fn_in, rate_limits, admitted, submitted>>

NextScore == ApplyScore

SpecScore == InitScore /\ [][NextScore]_vars

\* C10: calculate_daily_score counts an answer as correct only if its
\* question_id is in the ground truth and the answer equals the stored
\* one: an answer to an unknown question_id is incorrect, TRUE or FALSE.
C10_UnknownIdIncorrect ==
    fn_out.fn = "calculate_daily_score" =>
        fn_out.result.correct_count =
            Cardinality({i \in 1..Len(fn_in.answers) :
                /\ fn_in.answers[i].question_id \in DOMAIN fn_in.questions_data
                /\ fn_in.answers[i].answer
                     = fn_in.questions_data[fn_in.answers[i].question_id].answer})

(***************************************************************************)
(* SpecLedger: the requests of one user handled one after the other, each  *)
(* to its response before the next begins, on any day of MaxLedgerDays     *)
(* days.  A submission names any of the days, in any order.                *)
(***************************************************************************)
MaxLedgerDays == 6

LedgerDates ==
    {strftime(strptime(FIRST_DATE) + i) : i \in 0..(MaxLedgerDays - 1)}

LedgerRequests ==
    {r \in [kind : {"submit", "fetch"}, auth : {"valid"}, user_id : {"u1"},
            has_date : BOOLEAN, date : LedgerDates,
            answers : {<<>>, <<Answer(1, TRUE)>>}] :
        /\ WellFormed(r)
        /\ (r.kind = "submit" => r.answers # <<>>)}

InitLedger ==
    /\ users = EmptyMap
    /\ answers_table = {}
    /\ questions = SeedQuestions(DAILY_COUNT)
    /\ now \in 0..(MaxLedgerDays - 1)
    /\ rng = <<5, 3>>
    /\ pc = [p \in Procs |-> "idle"]
    /\ req = [p \in Procs |-> NoRequest]
    /\ loc = [p \in Procs |-> NoLocals]
    /\ resp = [p \in Procs |-> NoResponse]
    /\ started = 0
    /\ NoProposals
    /\ fn_in = NoArgs
    /\ fn_out = NoArgs

StartLedger ==
    /\ InFlight = {}
    /\ \E r \in LedgerRequests : BeginRequest(1, r)
    /\ UNCHANGED <<users, answers_table, questions, now, rng, started, fn_in,
                   fn_out, rate_limits, admitted, submitted>>

NextLedger ==
    \/ StartLedger
    \/ \E p \in Procs : GocGet(p)
    \/ \E p \in Procs : GocPut(p)
    \/ \E p \in Procs : ReadUser(p)
    \/ \E p \in Procs : BatchGet(p)
    \/ \E p \in Procs : BatchWrite(p)
    \/ \E p \in Procs : UpdateUser(p)
    \/ \E p \in Procs : GetProgress(p)
    \/ \E p \in Procs : ScanQuestions(p)
    \/ \E p \in Procs : CalcStreak(p)

SpecLedger == InitLedger /\ [][NextLedger]_vars

(***************************************************************************)
(* SpecStorage: the submissions of one user handled one after the other    *)
(* over a storage whose batch write may leave items unprocessed and whose  *)
(* writes may raise.                                                       *)
(***************************************************************************)
StorageRequests ==
    {r \in [kind : {"submit", "fetch"}, auth : {"valid"}, user_id : {"u1"},
            has_date : BOOLEAN, date : Dates,
            answers : {<<>>, <<Answer(1, TRUE)>>,
                       <<Answer(1, TRUE), Answer(2, TRUE)>>}] :
        /\ WellFormed(r)
        /\ (r.kind = "submit" => r.answers # <<>>)}

StartStorage ==
    /\ InFlight = {}
    /\ \E r \in StorageRequests : BeginRequest(1, r)
    /\ UNCHANGED <<users, answers_table, questions, now, rng, started, fn_in,
                   fn_out, rate_limits, admitted, submitted>>

NextStorage ==
    \/ StartStorage
    \/ \E p \in Procs : GocGet(p)
    \/ \E p \in Procs : GocPut(p)
    \/ \E p \in Procs : ReadUser(p)
    \/ \E p \in Procs : BatchGet(p)
    \/ \E p \in Procs : BatchWrite(p)
    \/ \E p \in Procs : BatchWriteUnprocessed(p)
    \/ \E p \in Procs : BatchWriteRaises(p)
    \/ \E p \in Procs : UpdateUser(p)
    \/ \E p \in Procs : UpdateUserRaises(p)
    \/ \E p \in Procs : ReadRaises(p)
    \/ \E p \in Procs : GetProgress(p)
    \/ \E p \in Procs : GetProgressRaises(p)
    \/ \E p \in Procs : ScanQuestions(p)
    \/ \E p \in Procs : CalcStreak(p)
    \/ \E p \in Procs : CalcStreakRaises(p)
    \/ Tick

SpecStorage == Init /\ [][NextStorage]_vars

\* C20: a submission is answered 200 only if every write it issued was
\* acknowledged: every answer of the request is then in the answers table
\* and the date is completed in the user's record.
C20_SuccessMeansWritten ==
    \A p \in Procs :
        (SubmissionDone(p) /\ resp[p].status = 200) =>
            /\ loc[p].date_str \in CompletedDates(req[p].user_id)
            /\ \A i \in 1..Len(req[p].answers) :
                  \E item \in answers_table :
                      /\ item.user_id = req[p].user_id
                      /\ item.date = loc[p].date_str
                      /\ item.question_id = req[p].answers[i].question_id
                      /\ item.answer = req[p].answers[i].answer

(***************************************************************************)
(* SpecMalformed: the submissions of one user handled one after the other, *)
(* with bodies whose answers lack a key, with no answers, and with a date  *)
(* that names no day.                                                      *)
(***************************************************************************)
NO_DATE == <<2024, 2, 30>>

MalformedBodies ==
    {<<>>,
     <<[answer |-> TRUE, timestamp |-> 1]>>,
     <<[question_id |-> 1, timestamp |-> 1]>>,
     <<[question_id |-> 1, answer |-> TRUE]>>,
     <<Answer(1, TRUE), [question_id |-> 2, answer |-> TRUE]>>}

MalformedRequests ==
    {r \in [kind : {"submit"}, auth : {"valid"}, user_id : {"u1"},
            has_date : BOOLEAN, date : Dates \cup {NO_DATE},
            answers : MalformedBodies \cup {<<Answer(1, TRUE)>>}] :
        WellFormed(r)}

StartMalformed ==
    /\ InFlight = {}
    /\ \E r \in MalformedRequests : BeginRequest(1, r)
    /\ UNCHANGED <<users, answers_table, questions, now, rng, started, fn_in,
                   fn_out, rate_limits, admitted, submitted>>

NextMalformed ==
    \/ StartMalformed
    \/ \E p \in Procs : GocGet(p)
    \/ \E p \in Procs : GocPut(p)
    \/ \E p \in Procs : ReadUser(p)
    \/ \E p \in Procs : BatchGet(p)
    \/ \E p \in Procs : BatchWrite(p)
    \/ \E p \in Procs : UpdateUser(p)
    \/ Tick

SpecMalformed == Init /\ [][NextMalformed]_vars

\* a submission without answers, with an answer that lacks question_id,
\* answer or timestamp, or with a date that is no YYYY-MM-DD day
Malformed(r) ==
    /\ r.kind = "submit"
    /\ \/ r.answers = <<>>
       \/ ~AllHave(r.answers, {"question_id", "answer", "timestamp"})
       \/ (r.has_date /\ ~IsValidDate(r.date))

\* C22: a malformed submission is rejected and changes nothing: no step of
\* it changes the answers table, none changes the user's record (the
\* empty record get_or_create_user puts for a user without one aside),
\* and it ends in an error.
C22_MalformedChangesNothing ==
    [][\A p \in Procs :
          (Malformed(req[p]) /\ pc[p] \notin {"idle", "done"}
             /\ pc'[p] # pc[p]) =>
              /\ answers_table' = answers_table
              /\ \/ users' = users
                 \/ /\ req[p].user_id \notin DOMAIN users
                    /\ users' = Put(users, req[p].user_id, NewUser)
              /\ (pc'[p] = "done" => resp'[p].status \in {400, 500})]_vars

(***************************************************************************)
(* SpecStreak: the two streak computations alone, on the record that       *)
(* submissions made in date order leave: a run of completed days ending at *)
(* the as-of date or the day before it, and an older run behind a gap of   *)
(* one day.  The runs are short, or as long as the safety limit.           *)
(***************************************************************************)
MaxRun == 3

AsOfDates ==
    {<<2024, 2, 1>>, <<2024, 2, 15>>, <<2024, 3, 1>>, <<2025, 1, 1>>,
     <<2025, 3, 1>>}

RunLengths == (0..MaxRun) \cup ((SAFETY_LIMIT - 1)..(SAFETY_LIMIT + 2))

\* the entry a submission of one correct answer writes
DayEntry ==
    ProgressEntry(calculate_daily_score(<<Answer(1, TRUE)>>,
                                        SeedQuestions(DAILY_COUNT)),
                  <<Answer(1, TRUE)>>, 0)

\* the record of a user who completed, in date order, the run days up to
\* last and, one missed day before them, older days more; the walk of a
\* submission counts at most SAFETY_LIMIT + 1 days
UserWithRuns(last, run, older) ==
    LET days == {last - i : i \in 0..(run - 1)}
                \cup {last - run - 1 - i : i \in 0..(older - 1)}
        current == Min(IF run > 0 THEN run ELSE older, SAFETY_LIMIT + 1)
    IN  [daily_progress |-> [ds \in {strftime(d) : d \in days} |-> DayEntry],
         current_daily_streak |-> current,
         best_daily_streak |-> Max(current, Min(older, SAFETY_LIMIT + 1)),
         total_daily_games |-> run + older,
         last_active |-> 0]

InitStreak ==
    /\ answers_table = {}
    /\ questions = SeedQuestions(DAILY_COUNT)
    /\ rng = <<5, 3>>
    /\ pc = [p \in Procs |-> "idle"]
    /\ req = [p \in Procs |-> NoRequest]
    /\ loc = [p \in Procs |-> NoLocals]
    /\ resp = [p \in Procs |-> NoResponse]
    /\ started = 0
    /\ NoProposals
    /\ \E as_of \in AsOfDates, skipped \in {0, 1}, run \in RunLengths,
          older \in 0..MaxRun :
          /\ (run > MaxRun => older = 0)
          /\ now = strptime(as_of) - strptime(FIRST_DATE)
          /\ users = Put(EmptyMap, "u1",
                         UserWithRuns(strptime(as_of) - skipped, run, older))
          /\ fn_in = [fn |-> "streak", date_str |-> as_of]
    /\ fn_out = NoArgs

\* lines 228-244 of the submission handler for a date without an entry:
\* the entry of the date and the start of the walk
BeginSubmitStreak ==
    /\ fn_in.fn = "streak"
    /\ fn_out.fn = "none"
    /\ fn_in.date_str \notin CompletedDates("u1")
    /\ fn_out' = [fn |-> "submit_walk",
                  daily_progress |->
                      Put(users["u1"].daily_progress, fn_in.date_str, DayEntry),
                  check_date |-> strptime(fn_in.date_str),
                  count |-> 0]
    /\ UNCHANGED <<users, answers_table, questions, now, rng, pc, req, loc,
                   resp, started, fn_in, rate_limits, admitted, submitted>>

\* one pass through the loop of lines 246-254 and, when it ends, the new
\* best of lines 256-258
SubmitStreakStep ==
    /\ fn_out.fn = "submit_walk"
    /\ LET step == WalkStep(fn_out.daily_progress, fn_out.check_date,
                            fn_out.count)
       IN  fn_out' = [fn |-> IF step.break THEN "submit_streak"
                             ELSE "submit_walk",
                      daily_progress |-> fn_out.daily_progress,
                      check_date |-> step.check_date,
                      count |-> step.streak_count,
                      best |-> Max(users["u1"].best_daily_streak,
                                   step.streak_count)]
    /\ UNCHANGED <<users, answers_table, questions, now, rng, pc, req, loc,
                   resp, started, fn_in, rate_limits, admitted, submitted>>

\* calculate_user_streak as the fetch handler calls it: the start of the
\* walk from today
BeginUserStreak ==
    /\ fn_in.fn = "streak"
    /\ fn_out.fn = "none"
    /\ fn_out' = [fn |-> "user_walk",
                  daily_progress |-> users["u1"].daily_progress,
                  check_date |-> strptime(Today),
                  count |-> 0]
    /\ UNCHANGED <<users, answers_table, questions, now, rng, pc, req, loc,
                   resp, started, fn_in, rate_limits, admitted, submitted>>

\* one pass through the loop of calculate_user_streak and, when it ends,
\* the dictionary returned
UserStreakStep ==
    /\ fn_out.fn = "user_walk"
    /\ LET step == UserWalkStep(fn_out.daily_progress, fn_out.check_date,
                                fn_out.count)
           info == StreakInfo(fn_out.daily_progress,
                              users["u1"].best_daily_streak,
                              step.current_streak)
       IN  fn_out' = [fn |-> IF step.break THEN "user_streak" ELSE "user_walk",
                      daily_progress |-> fn_out.daily_progress,
                      check_date |-> step.check_date,
                      count |-> info.current_streak,
                      best |-> info.best_streak]
    /\ UNCHANGED <<users, answers_table, questions, now, rng, pc, req, loc,
                   resp, started, fn_in, rate_limits, admitted, submitted>>

NextStreak ==
    \/ BeginSubmitStreak
    \/ SubmitStreakStep
    \/ BeginUserStreak
    \/ UserStreakStep

SpecStreak == InitStreak /\ [][NextStreak]_vars

\* the days, as ordinals, with a completed entry in a ledger
CompletedDays(daily_progress) ==
    {strptime(ds) : ds \in {d \in DOMAIN daily_progress :
                                daily_progress[d].completed}}

\* the length of the maximal run of consecutive days of a set ending at day
RunEndingAt(days, day) ==
    CHOOSE n \in 0..Cardinality(days) :
        /\ \A i \in 0..(n - 1) : day - i \in days
        /\ day - n \notin days

\* the streak and the best streak the finished computation reports
ReportedStreak == fn_out.count

ReportedBest == fn_out.best

RunAsOf == RunEndingAt(CompletedDays(fn_out.daily_progress),
                       strptime(fn_in.date_str))

StreakComputed == fn_out.fn \in {"submit_streak", "user_streak"}

\* C11 (as stated): the current streak computed as of a date equals the
\* length of the maximal run of consecutive completed days ending at the
\* date, and the best streak is the larger of the stored best and it.
C11_StreakIsRunLength ==
    StreakComputed =>
        /\ ReportedStreak = RunAsOf
        /\ ReportedBest = Max(users["u1"].best_daily_streak, ReportedStreak)

\* C11 (amended): the current streak computed as of a date equals the
\* length of the maximal run of consecutive completed days ending at the
\* date (0 when the date is not completed, 1 when it is and the day before
\* is not) as long as the run has at most 366 days, and is 366 for every
\* longer run; the best streak is the larger of the stored best and it.
C11_StreakIsRunLengthUpToLimit ==
    StreakComputed =>
        /\ ReportedStreak = Min(RunAsOf, 366)
        /\ ReportedBest = Max(users["u1"].best_daily_streak, ReportedStreak)

\* a run of two days ends at the date and an older, longer run is behind it
C11_Witness ==
    /\ StreakComputed
    /\ RunAsOf = 2
    /\ ReportedStreak = 2
    /\ ReportedBest = 3

\* C15 (as stated): whatever the ledger, one with every day completed
\* included, the walk stops and the current streak it reports and stores
\* is never greater than 365.
C15_StreakAtMost365 ==
    StreakComputed => ReportedStreak <= 365

\* C15 (amended): whatever the ledger, one with every day completed
\* included, the count of the walk never exceeds 366, so that the walk
\* stops after at most 366 days and the current streak it reports and
\* stores is never greater than 366.
C15_StreakAtMost366 ==
    fn_out.fn \in {"submit_walk", "user_walk", "submit_streak", "user_streak"}
        => fn_out.count <= 366

\* the walk has stopped at 366 in a run of more than 366 completed days
C15_Witness ==
    /\ StreakComputed
    /\ RunAsOf > 366
    /\ ReportedStreak = 366

\* the day before a date, from the calendar
LastDayOfMonth(y, m) ==
    <<31, IF (y % 4 = 0 /\ y % 100 # 0) \/ y % 400 = 0 THEN 29 ELSE 28, 31,
      30, 31, 30, 31, 31, 30, 31, 30, 31>>[m]

DayBefore(date_str) ==
    IF date_str[3] > 1 THEN <<date_str[1], date_str[2], date_str[3] - 1>>
    ELSE IF date_str[2] > 1
    THEN <<date_str[1], date_str[2] - 1,
           LastDayOfMonth(date_str[1], date_str[2] - 1)>>
    ELSE <<date_str[1] - 1, 12, 31>>

IsCompleted(daily_progress, date_str) ==
    date_str \in DOMAIN daily_progress /\ daily_progress[date_str].completed

\* C16: the walk steps to the previous calendar day across month and year
\* boundaries: when the first day of a month (or year) and the last day of
\* the month (or year) before it are both completed, the streak as of the
\* first day counts both, so it is at least 2.
C16_CrossesMonthBoundary ==
    (/\ StreakComputed
     /\ fn_in.date_str[3] = 1
     /\ IsCompleted(fn_out.daily_progress, fn_in.date_str)
     /\ IsCompleted(fn_out.daily_progress, DayBefore(fn_in.date_str)))
        => ReportedStreak >= 2

\* the streak as of 1 January counts 31 December and 30 December
C16_Witness ==
    /\ StreakComputed
    /\ fn_in.date_str = <<2025, 1, 1>>
    /\ IsCompleted(fn_out.daily_progress, <<2024, 12, 31>>)
    /\ ReportedStreak = 3

(***************************************************************************)
(* Properties of the ledger and the stored streaks (SpecLedger).           *)
(***************************************************************************)
\* C12: when today has no completed record, the fetch reports a current
\* streak of 0, however long the run ending the day before, and as best
\* streak the best recorded so far, the stored one.
C12_SkippedDayResetsCurrent ==
    \A p \in Procs :
        (FetchAnswered(p) /\ Today \notin CompletedDates(req[p].user_id)) =>
            /\ loc[p].streak_info.current_streak = 0
            /\ ~loc[p].streak_info.today_completed
            /\ loc[p].streak_info.best_streak
                 = users[req[p].user_id].best_daily_streak

\* five consecutive days were completed, the sixth was skipped: the fetch
\* of the sixth day reports a current streak of 0 and a best of 5
C12_Witness ==
    /\ FetchAnswered(1)
    /\ Today = <<2024, 2, 4>>
    /\ CompletedDates("u1") = {<<2024, 1, 30>>, <<2024, 1, 31>>, <<2024, 2, 1>>,
                               <<2024, 2, 2>>, <<2024, 2, 3>>}
    /\ loc[1].streak_info.current_streak = 0
    /\ loc[1].streak_info.best_streak = 5

\* the completed days of user u1, as ordinals
LedgerDays == {strptime(ds) : ds \in CompletedDates("u1")}

LatestDay == CHOOSE d \in LedgerDays : \A e \in LedgerDays : e <= d

\* C13: between requests, the stored current_daily_streak is the length of
\* the run of consecutive completed dates that ends at the user's latest
\* completed date, in whatever order the dates were submitted.
C13_StoredStreakEndsAtLatest ==
    (InFlight = {} /\ LedgerDays # {}) =>
        users["u1"].current_daily_streak = RunEndingAt(LedgerDays, LatestDay)

\* C14: between requests, the stored best_daily_streak is at least the
\* length of every run of consecutive completed dates in the ledger (up to
\* the limit of the walk), in whatever order the dates were submitted.
C14_BestCoversEveryRun ==
    (InFlight = {} /\ LedgerDays # {}) =>
        \A d \in LedgerDays :
            users["u1"].best_daily_streak
                >= Min(RunEndingAt(LedgerDays, d), SAFETY_LIMIT)

(***************************************************************************)
(* SpecRank: calculate_daily_score on answer lists of every length up to   *)
(* MaxTotal with every number of correct answers, and on each list with    *)
(* one more correctly answered question appended.                          *)
(***************************************************************************)
MaxTotal == 20

\* n answers to the questions 1..n, the first c of them correct
AnswersWithCorrect(n, c) ==
    [i \in 1..n |->
        Answer(i, IF i <= c THEN SeedQuestions(n)[i].answer
                  ELSE ~SeedQuestions(n)[i].answer)]

InitRank ==
    /\ Quiet
    /\ rng = <<5, 3>>
    /\ \E n \in 0..MaxTotal :
       \E c \in 0..n :
          fn_in = [fn |-> "calculate_daily_score",
                   answers |-> AnswersWithCorrect(n, c),
                   questions_data |-> SeedQuestions(n)]
    /\ fn_out = NoArgs

\* the score of the list with one more correctly answered question
AppendCorrect ==
    /\ fn_out.fn = "calculate_daily_score"
    /\ "previous" \notin DOMAIN fn_out
    /\ LET n == Len(fn_in.answers) + 1
           questions_data == SeedQuestions(n)
           answers == Append(fn_in.answers, Answer(n, questions_data[n].answer))
       IN  /\ fn_in' = [fn |-> "calculate_daily_score", answers |-> answers,
                        questions_data |-> questions_data]
           /\ fn_out' = [fn |-> "calculate_daily_score",
                         result |-> calculate_daily_score(answers,
                                                          questions_data),
                         previous |-> fn_out.result]
    /\ UNCHANGED <<users, answers_table, questions, now, rng, pc, req, loc,
                   resp, started, rate_limits, admitted, submitted>>

NextRank ==
    \/ ApplyScore
    \/ AppendCorrect

SpecRank == InitRank /\ [][NextRank]_vars

Scored == fn_out.fn = "calculate_daily_score"

\* the correct_count and the total_questions of the result
CorrectAnswers == fn_out.result.correct_count

TotalAnswers == fn_out.result.total_questions

\* C17: the rank follows fixed inclusive lower bounds on the percentage
\* pct = correct / total * 100: S iff pct = 100, A iff 80 <= pct < 100,
\* B iff 70 <= pct < 80, C iff 60 <= pct < 70, D iff pct < 60, for every
\* total > 0 and 0 <= correct <= total.
C17_RankThresholds ==
    (Scored /\ TotalAnswers > 0) =>
        LET pct_times_total == CorrectAnswers * 100
            t == TotalAnswers
            rank == fn_out.result.rank
        IN  /\ rank \in {"S", "A", "B", "C", "D"}
            /\ (rank = "S" <=> pct_times_total = 100 * t)
            /\ (rank = "A" <=> (80 * t <= pct_times_total
                                /\ pct_times_total < 100 * t))
            /\ (rank = "B" <=> (70 * t <= pct_times_total
                                /\ pct_times_total < 80 * t))
            /\ (rank = "C" <=> (60 * t <= pct_times_total
                                /\ pct_times_total < 70 * t))
            /\ (rank = "D" <=> pct_times_total < 60 * t)

\* 7 of 10 correct is exactly 70 percent: rank B
C17_Witness ==
    /\ Scored
    /\ TotalAnswers = 10
    /\ CorrectAnswers = 7
    /\ fn_out.result.rank = "B"

\* C18: the percentage is correct / total * 100, and 0 for an empty list;
\* it lies in [0, 100]; appending one more correctly answered question
\* never lowers it.
C18_PercentageMonotone ==
    Scored =>
        LET pct == fn_out.result.score_percentage
        IN  /\ TotalAnswers = Len(fn_in.answers)
            /\ pct[2] > 0
            /\ pct[1] * TotalAnswers = CorrectAnswers * 100 * pct[2]
            /\ (TotalAnswers = 0 => pct[1] = 0)
            /\ 0 <= pct[1] /\ pct[1] <= 100 * pct[2]
            /\ ("previous" \in DOMAIN fn_out =>
                   pct[1] * fn_out.previous.score_percentage[2]
                     >= fn_out.previous.score_percentage[1] * pct[2])

\* 7 of 10 became 8 of 11: the percentage rose from 70 to 800/11
C18_Witness ==
    /\ Scored
    /\ "previous" \in DOMAIN fn_out
    /\ fn_out.previous.score_percentage = <<70, 1>>
    /\ fn_out.result.score_percentage = <<800, 11>>

\* C19: streak_eligible is true exactly when the percentage is at least
\* 70, that is exactly when the rank is S, A or B.
C19_EligibleFromB ==
    Scored =>
        /\ (fn_out.result.streak_eligible
              <=> (TotalAnswers > 0 /\ CorrectAnswers * 100 >= 70 * TotalAnswers))
        /\ (fn_out.result.streak_eligible
              <=> fn_out.result.rank \in {"S", "A", "B"})

\* 8 of 10 correct: 80 percent, rank A, eligible
C19_Witness ==
    /\ Scored
    /\ TotalAnswers = 10
    /\ CorrectAnswers = 8
    /\ fn_out.result.score_percentage = <<80, 1>>
    /\ fn_out.result.rank = "A"
    /\ fn_out.result.streak_eligible

(***************************************************************************)
(* Properties of the user record under interleaving (Spec).                *)
(***************************************************************************)
\* C23: in every reachable state the total_daily_games of a user's record
\* is the number of dates with a completed entry in its daily_progress.
C23_GamesCountCompletedDates ==
    \A u \in DOMAIN users :
        users[u].total_daily_games = Cardinality(CompletedDates(u))

\* C24: no step lowers the stored best_daily_streak of a user.
C24_BestNeverDecreases ==
    [][\A u \in DOMAIN users :
          /\ u \in DOMAIN users'
          /\ users'[u].best_daily_streak >= users[u].best_daily_streak]_vars

\* C25: no step of get_or_create_user replaces a record: a record that
\* holds a completed date or a streak is not reset to the initial record.
C25_RecordNeverReset ==
    [][\A u \in DOMAIN users :
          (CompletedDates(u) # {} \/ users[u].current_daily_streak > 0
             \/ users[u].best_daily_streak > 0)
          => ~(/\ users'[u].daily_progress = EmptyMap
               /\ users'[u].current_daily_streak = 0
               /\ users'[u].best_daily_streak = 0)]_vars

\* C28: a request without a valid token is answered 401 at once and writes
\* nothing: its first step is its last and leaves the users table and the
\* answers table as they were.
C28_UnauthenticatedTouchesNothing ==
    [][\A p \in Procs :
          (req'[p].auth # "valid" /\ pc[p] # pc'[p]) =>
              /\ pc'[p] = "done"
              /\ resp'[p].status = 401
              /\ ~loc'[p].wrote
              /\ users' = users
              /\ answers_table' = answers_table]_vars

\* a submission with an invalid token was answered 401 while the user has
\* no record
C28_Witness ==
    \E p \in Procs :
        /\ pc[p] = "done"
        /\ req[p].kind = "submit"
        /\ req[p].auth = "invalid"
        /\ req[p].answers # <<>>
        /\ resp[p].status = 401
        /\ req[p].user_id \notin DOMAIN users

(***************************************************************************)
(* The two streak computations (SpecLedger).                               *)
(***************************************************************************)
\* C27: the streak and the best streak a submission stores after
\* completing date D are the current_streak and the best_streak that
\* calculate_user_streak reports on the resulting record when today is D.
C27_StreakComputationsAgree ==
    \A p \in Procs :
        (/\ SubmissionDone(p)
         /\ resp[p].status = 200
         /\ loc[p].date_str = Today) =>
            LET info == calculate_user_streak(req[p].user_id)
            IN  /\ loc[p].streak_count = info.current_streak
                /\ loc[p].new_best = info.best_streak
                /\ users[req[p].user_id].current_daily_streak
                     = info.current_streak
                /\ users[req[p].user_id].best_daily_streak = info.best_streak

\* today was completed after a missed day: the streak is 1 and the best,
\* from an older run, is 2
C27_Witness ==
    /\ SubmissionDone(1)
    /\ resp[1].status = 200
    /\ loc[1].date_str = Today
    /\ loc[1].streak_count = 1
    /\ loc[1].new_best = 2
    /\ calculate_user_streak("u1").best_streak = 2

(***************************************************************************)
(* Failures of the storage (SpecStorage).                                  *)
(***************************************************************************)
\* C21: a fetch answers 200 only with what the user's record holds: the
\* progress of the date it reports is the record's, and the streak is the
\* one computed from the record; a failed read of the record is not
\* answered with a made-up 'not completed' progress or a zero streak.
C21_FetchReportsTheRecord ==
    [][\A p \in Procs :
          (/\ req[p].kind = "fetch"
           /\ pc[p] = "calc_streak"
           /\ pc'[p] = "done"
           /\ resp'[p].status = 200) =>
              /\ loc'[p].streak_info = calculate_user_streak(req[p].user_id)
              /\ loc'[p].progress.completed
                   = (loc[p].date_str \in CompletedDates(req[p].user_id))]_vars

\* the dates completed in the record of u after the step
CompletedDatesAfter(u) ==
    IF u \in DOMAIN users'
    THEN {d \in DOMAIN users'[u].daily_progress :
              users'[u].daily_progress[d].completed}
    ELSE {}

\* C26: a date becomes completed only in the last step of a submission for
\* it that is answered 200, and the step that ends a submission in an
\* error leaves the users table as it was, so that the date can be
\* submitted again.
C26_ErrorLeavesDateOpen ==
    [][/\ \A u \in Users :
          \A d \in CompletedDatesAfter(u) \ CompletedDates(u) :
             \E p \in Procs :
                /\ req[p].kind = "submit"
                /\ req[p].user_id = u
                /\ loc'[p].date_str = d
                /\ pc[p] # "done"
                /\ pc'[p] = "done"
                /\ resp'[p].status = 200
       /\ \A p \in Procs :
             (/\ req[p].kind = "submit"
              /\ pc[p] # "done"
              /\ pc'[p] = "done"
              /\ resp'[p].status # 200) => users' = users]_vars

\* a submission wrote its answers and was then answered 500: its date is
\* not completed
C26_Witness ==
    /\ SubmissionDone(1)
    /\ resp[1].status = 500
    /\ \E item \in answers_table : item.date = loc[1].date_str
    /\ loc[1].date_str \notin CompletedDates("u1")
    /\ "u1" \in DOMAIN users

(***************************************************************************)
(* propose_question.py: check_rate_limit and the lambda_handler after      *)
(* get_or_create_user.  Each call of the rate-limits table is one step.    *)
(***************************************************************************)
hour_limit == 3
day_limit == 10
hour_window == 3600
day_window == 86400

\* f"{user_id}:hour:{current_time // hour_window}"
hour_key(user_id, current_time) ==
    <<user_id, "hour", current_time \div hour_window>>

\* f"{user_id}:day:{current_time // day_window}"
day_key(user_id, current_time) ==
    <<user_id, "day", current_time \div day_window>>

\* get_item(Key={'id': id}).get('Item', {}).get('count', 0)
CountOf(id) == IF id \in DOMAIN rate_limits THEN rate_limits[id] ELSE 0

\* the calls the limiter has allowed in the window of id
Admitted(id) == IF id \in DOMAIN admitted THEN admitted[id] ELSE 0

\* a request body lacks a required field or has them all; the generated
\* question_id is new to the table
ProposalBodies ==
    {[question |-> "q", answer |-> TRUE, categories |-> <<"general">>],
     [question |-> "q", categories |-> <<"general">>]}

ProposeRequests ==
    [kind : {"propose"}, auth : {"valid"}, user_id : {"u1"},
     body : ProposalBodies]

StartPropose(p) ==
    /\ pc[p] \in {"idle", "done"}
    /\ \A q \in Procs : q < p => pc[q] \notin {"idle", "done"}
    /\ started < MaxRequests
    /\ \E r \in ProposeRequests : BeginRequest(p, r)
    /\ started' = started + 1
    /\ UNCHANGED <<users, answers_table, questions, now, rng, fn_in, fn_out,
                   rate_limits, admitted, submitted>>

\* current_time = int(time.time()) and the get_item of the hourly counter
RateGetHour(p) ==
    /\ pc[p] = "rl_get_hour"
    /\ loc' = [loc EXCEPT
          ![p].current_time = now,
          ![p].hour_count = CountOf(hour_key(req[p].user_id, now))]
    /\ pc' = [pc EXCEPT ![p] = "rl_get_day"]
    /\ UNCHANGED <<users, answers_table, questions, now, rng, req, resp,
                   started, fn_in, fn_out, rate_limits, admitted, submitted>>

\* the get_item of the daily counter and the two limit checks: a call over
\* a limit is answered 429 with the time left in the window
RateGetDay(p) ==
    /\ pc[p] = "rl_get_day"
    /\ LET current_time == loc[p].current_time
           hour_count == loc[p].hour_count
           day_count == CountOf(day_key(req[p].user_id, current_time))
           rejected(retry_after) ==
               /\ loc' = [loc EXCEPT
                     ![p] = [NoLocals EXCEPT !.retry_after = retry_after]]
               /\ Finish(p, 429, "Rate limit exceeded")
       IN  IF hour_count >= hour_limit
           THEN rejected(hour_window - (current_time % hour_window))
           ELSE IF day_count >= day_limit
           THEN rejected(day_window - (current_time % day_window))
           ELSE /\ loc' = [loc EXCEPT ![p].day_count = day_count]
                /\ pc' = [pc EXCEPT ![p] = "rl_put_hour"]
                /\ resp' = resp
    /\ UNCHANGED <<users, answers_table, questions, now, rng, req, started,
                   fn_in, fn_out, rate_limits, admitted, submitted>>

\* put_item of the hourly counter
RatePutHour(p) ==
    /\ pc[p] = "rl_put_hour"
    /\ rate_limits' = Put(rate_limits,
                          hour_key(req[p].user_id, loc[p].current_time),
                          loc[p].hour_count + 1)
    /\ pc' = [pc EXCEPT ![p] = "rl_put_day"]
    /\ UNCHANGED <<users, answers_table, questions, now, rng, req, loc, resp,
                   started, fn_in, fn_out, admitted, submitted>>

\* put_item of the daily counter; check_rate_limit returns allowed
RatePutDay(p) ==
    /\ pc[p] = "rl_put_day"
    /\ LET hk == hour_key(req[p].user_id, loc[p].current_time)
           dk == day_key(req[p].user_id, loc[p].current_time)
       IN  /\ rate_limits' = Put(rate_limits, dk, loc[p].day_count + 1)
           /\ admitted' = Put(Put(admitted, hk, Admitted(hk) + 1),
                              dk, Admitted(dk) + 1)
    /\ pc' = [pc EXCEPT ![p] = "pq_put"]
    /\ UNCHANGED <<users, answers_table, questions, now, rng, req, loc, resp,
                   started, fn_in, fn_out, submitted>>

\* question_id = f"q_{uuid.uuid4().hex[:8]}": an id the table does not hold
NewQuestionId == Cardinality(DOMAIN submitted) + 1

\* the item of a proposal
PendingItem(id, body, user_id) ==
    [id |-> id, question |-> body.question, answer |-> body.answer,
     categories |-> body.categories, status |-> "pending",
     submitted_at |-> now, author |-> user_id, accepted |-> FALSE]

\* the checks of the body and the put_item of the pending question
ProposePut(p) ==
    /\ pc[p] = "pq_put"
    /\ loc' = [loc EXCEPT ![p] = NoLocals]
    /\ IF {"question", "answer"} \subseteq DOMAIN req[p].body
       THEN /\ submitted' =
                 Put(submitted, NewQuestionId,
                     PendingItem(NewQuestionId, req[p].body, req[p].user_id))
            /\ Finish(p, 200, "")
       ELSE /\ submitted' = submitted
            /\ Finish(p, 400, "Missing required fields")
    /\ UNCHANGED <<users, answers_table, questions, now, rng, req, started,
                   fn_in, fn_out, rate_limits, admitted>>

(***************************************************************************)
(* SpecRate: proposals of one user, handled concurrently, around the end   *)
(* of an hour and the end of a day.  The clock counts seconds; u1 may have *)
(* proposed before: twice in the running hour, nine times in the day.  The *)
(* rate-limits table answers every call.                                   *)
(***************************************************************************)
FirstTime == day_window - hour_window - 1
LastTime == day_window

\* the clock is looked at in the last second of an hour and in the first
RateTick ==
    /\ \E later \in {IF now % hour_window = hour_window - 1
                     THEN now + 1 ELSE now + hour_window - 1} :
          /\ later <= LastTime
          /\ now' = later
    /\ UNCHANGED <<users, answers_table, questions, rng, pc, req, loc, resp,
                   started, fn_in, fn_out, rate_limits, admitted, submitted>>

\* the counters after h admitted calls of u1 in the hour and d in the day
Counters(h, d) ==
    LET hk == hour_key("u1", FirstTime)
        dk == day_key("u1", FirstTime)
    IN  [id \in {k \in {hk} : h > 0} \cup {k \in {dk} : d > 0} |->
            IF id = hk THEN h ELSE d]

InitRate ==
    /\ answers_table = {}
    /\ questions = SeedQuestions(DAILY_COUNT)
    /\ now = FirstTime
    /\ rng = <<5, 3>>
    /\ pc = [p \in Procs |-> "idle"]
    /\ req = [p \in Procs |-> NoRequest]
    /\ loc = [p \in Procs |-> NoLocals]
    /\ resp = [p \in Procs |-> NoResponse]
    /\ started = 0
    /\ fn_in = NoArgs
    /\ fn_out = NoArgs
    /\ submitted = EmptyMap
    /\ \E h \in {0, hour_limit - 1} : \E d \in {h, day_limit - 1} :
          /\ rate_limits = Counters(h, d)
          /\ admitted = Counters(h, d)
          /\ users = IF d > 0
                     THEN Put(EmptyMap, "u1", [NewUser EXCEPT !.last_active = 0])
                     ELSE EmptyMap

NextRate ==
    \/ \E p \in Procs : StartPropose(p)
    \/ \E p \in Procs : GocGet(p)
    \/ \E p \in Procs : GocPut(p)
    \/ \E p \in Procs : RateGetHour(p)
    \/ \E p \in Procs : RateGetDay(p)
    \/ \E p \in Procs : RatePutHour(p)
    \/ \E p \in Procs : RatePutDay(p)
    \/ \E p \in Procs : ProposePut(p)
    \/ RateTick

SpecRate == InitRate /\ [][NextRate]_vars

\* the limit of the window of a counter
LimitOf(id) == IF id[2] = "hour" THEN hour_limit ELSE day_limit

\* p is answered 429 in this step
Rejects(p) == pc[p] = "rl_get_day" /\ pc'[p] = "done"

\* C29: under any interleaving of concurrent calls, check_rate_limit allows
\* at most 3 calls of a user in an hour window and at most 10 in a day
\* window, and a call it rejects changes no counter.
C29_LimitsHold ==
    [][/\ \A id \in DOMAIN admitted' : admitted'[id] <= LimitOf(id)
       /\ \A p \in Procs : Rejects(p) => rate_limits' = rate_limits]_vars

\* a rejected call changes no counter
RejectedCallWritesNothing ==
    [][\A p \in Procs : Rejects(p) => rate_limits' = rate_limits]_vars

(***************************************************************************)
(* approve_question.lambda_handler after get_or_create_user.  Each call of *)
(* a table is one step; the category mappings are not part of the state.   *)
(***************************************************************************)
\* body["action"].lower()
Lower(action) == IF action = "APPROVE" THEN "approve" ELSE action

\* a review names a question and an action; one body lacks the action
ReviewBodies ==
    {[question_id |-> q, action |-> a] :
        q \in 1..2, a \in {"approve", "reject", "APPROVE", "delete"}}
    \cup {[question_id |-> 1]}

ReviewRequests ==
    [kind : {"review"}, auth : {"valid"}, user_id : {"u2"},
     body : ReviewBodies]

StartReview(p) ==
    /\ pc[p] \in {"idle", "done"}
    /\ \A q \in Procs : q < p => pc[q] \notin {"idle", "done"}
    /\ started < MaxRequests
    /\ \E r \in ReviewRequests : BeginRequest(p, r)
    /\ started' = started + 1
    /\ UNCHANGED <<users, answers_table, questions, now, rng, fn_in, fn_out,
                   rate_limits, admitted, submitted>>

\* the checks of the body, the get_item of the submitted question and the
\* check of its status
ReviewGet(p) ==
    /\ pc[p] = "rv_get"
    /\ LET body == req[p].body
           answered(status, error) ==
               /\ loc' = [loc EXCEPT ![p] = NoLocals]
               /\ Finish(p, status, error)
       IN  IF ~({"question_id", "action"} \subseteq DOMAIN body)
           THEN answered(400, "Missing required fields")
           ELSE IF Lower(body.action) \notin {"approve", "reject"}
           THEN answered(400, "Action must be approve or reject")
           ELSE IF body.question_id \notin DOMAIN submitted
           THEN answered(404, "Question not found")
           ELSE IF submitted[body.question_id].status # "pending"
           THEN answered(400, "Question already processed")
           ELSE /\ loc' = [loc EXCEPT ![p].submitted_question =
                                          submitted[body.question_id]]
                /\ pc' = [pc EXCEPT ![p] = "rv_update"]
                /\ resp' = resp
    /\ UNCHANGED <<users, answers_table, questions, now, rng, req, started,
                   fn_in, fn_out, rate_limits, admitted, submitted>>

\* the item after SET #status = :status, accepted = :accepted,
\* reviewed_at = :reviewed_at, reviewer_id = :reviewer_id
Reviewed(item, action, current_time, reviewer_id) ==
    [f \in DOMAIN item \cup {"status", "accepted", "reviewed_at",
                             "reviewer_id"} |->
        CASE f = "status" -> IF action = "approve" THEN "approved"
                             ELSE "rejected"
          [] f = "accepted" -> action = "approve"
          [] f = "reviewed_at" -> current_time
          [] f = "reviewer_id" -> reviewer_id
          [] OTHER -> item[f]]

\* current_time = int(time.time()) and the update_item of the submitted
\* question; a rejection is answered here
ReviewUpdate(p) ==
    /\ pc[p] = "rv_update"
    /\ LET question_id == req[p].body.question_id
           action == Lower(req[p].body.action)
           stored == IF question_id \in DOMAIN submitted
                     THEN submitted[question_id] ELSE [id |-> question_id]
       IN  /\ submitted' = Put(submitted, question_id,
                               Reviewed(stored, action, now, req[p].user_id))
           /\ IF action = "approve"
              THEN /\ loc' = [loc EXCEPT ![p].current_time = now]
                   /\ pc' = [pc EXCEPT ![p] = "rv_put"]
                   /\ resp' = resp
              ELSE /\ loc' = [loc EXCEPT ![p] = NoLocals]
                   /\ Finish(p, 200, "")
    /\ UNCHANGED <<users, answers_table, questions, now, rng, req, started,
                   fn_in, fn_out, rate_limits, admitted>>

\* main_question_id = str(uuid.uuid4()): an id the table does not hold
NewMainId == Cardinality(DOMAIN questions) + 1

\* the question as it goes to the main table
ApprovedQuestion(id, submitted_question, current_time) ==
    [id |-> id, question |-> submitted_question.question,
     answer |-> submitted_question.answer,
     categories |-> submitted_question.categories, difficulty |-> 3,
     created_at |-> current_time, source |-> "user_submission",
     original_author |-> submitted_question.author]

\* the put_item of the approved question into the main table
ReviewPut(p) ==
    /\ pc[p] = "rv_put"
    /\ questions' = Put(questions, NewMainId,
                        ApprovedQuestion(NewMainId, loc[p].submitted_question,
                                         loc[p].current_time))
    /\ loc' = [loc EXCEPT ![p] = NoLocals]
    /\ Finish(p, 200, "")
    /\ UNCHANGED <<users, answers_table, now, rng, req, started, fn_in,
                   fn_out, rate_limits, admitted, submitted>>

(***************************************************************************)
(* SpecReview: reviews handled concurrently; u1 has proposed question 1,   *)
(* which is pending, and no question 2 exists.                             *)
(***************************************************************************)
InitReview ==
    /\ now = 0
    /\ users = Put(EmptyMap, "u1", NewUser)
    /\ answers_table = {}
    /\ questions = SeedQuestions(DAILY_COUNT)
    /\ rng = <<5, 3>>
    /\ pc = [p \in Procs |-> "idle"]
    /\ req = [p \in Procs |-> NoRequest]
    /\ loc = [p \in Procs |-> NoLocals]
    /\ resp = [p \in Procs |-> NoResponse]
    /\ started = 0
    /\ fn_in = NoArgs
    /\ fn_out = NoArgs
    /\ rate_limits = EmptyMap
    /\ admitted = EmptyMap
    /\ submitted =
          Put(EmptyMap, 1,
              PendingItem(1, [question |-> "q", answer |-> TRUE,
                              categories |-> <<"general">>], "u1"))

NextReview ==
    \/ \E p \in Procs : StartReview(p)
    \/ \E p \in Procs : GocGet(p)
    \/ \E p \in Procs : GocPut(p)
    \/ \E p \in Procs : ReviewGet(p)
    \/ \E p \in Procs : ReviewUpdate(p)
    \/ \E p \in Procs : ReviewPut(p)
    \/ Tick

SpecReview == InitReview /\ [][NextReview]_vars

\* the reviews of a question that have been answered 200
AcceptedReviews(question_id) ==
    {p \in Procs : /\ pc[p] = "done"
                   /\ req[p].kind = "review"
                   /\ resp[p].status = 200
                   /\ req[p].body.question_id = question_id}

\* the copies of a submitted question in the main table
CopiesOf(item) ==
    {id \in DOMAIN questions :
        /\ "source" \in DOMAIN questions[id]
        /\ questions[id].question = item.question
        /\ questions[id].original_author = item.author}

\* C30: a submitted question is reviewed at most once: its status changes
\* only from pending to approved or to rejected, and under any interleaving
\* of reviews of it at most one review is accepted and at most one copy of
\* it is put into the main questions table.
C30_ReviewedOnce ==
    [][\A id \in DOMAIN submitted :
          /\ submitted'[id].status # submitted[id].status =>
                /\ submitted[id].status = "pending"
                /\ submitted'[id].status \in {"approved", "rejected"}
          /\ Cardinality(AcceptedReviews(id)') <= 1
          /\ Cardinality(CopiesOf(submitted[id])') <= 1]_vars

=============================================================================
